---- MODULE Spec2Model ----
(***************************************************************************)
(* Model of src/app.py: the tool-calling / self-evaluation control loop of *)
(* Me.chat, with Me.handle_tool_call, Me.evaluate and Me.rerun.            *)
(*                                                                         *)
(* Python values are modelled as follows.                                  *)
(*   - a text (str) is a sequence of string segments, so that f-string     *)
(*     interpolation and += are sequence concatenation;                    *)
(*   - a value that may be a str, None or an object is a tagged record     *)
(*     (PyStr, PyNone, ChatCompletionMessage);                             *)
(*   - a dict is a record; a list is a sequence;                           *)
(*   - the attribute tool_calls of a message is PyNone or PyList(seq).     *)
(***************************************************************************)
EXTENDS Integers, Sequences, FiniteSets, TLC

VARIABLES
    me,            \* the Me instance: name, summary, linkedin
    pc,            \* position of the chat call
    message,       \* local variable `message` of chat (parameter, rebound at line 159)
    history,       \* parameter `history` of chat
    messages,      \* local list `messages` of chat
    response,      \* local variable `response` of chat
    reply,         \* local variable `reply` of chat
    evaluation,    \* local variable `evaluation` of chat
    returned,      \* value returned by chat to its caller (PyNone while none)
    raised,        \* the call that raised out of chat ("" while none)
    callerMessage, \* the message text the caller passed to chat
    callerHistory, \* the history list the caller passed to chat
    primaryCalls,  \* requests sent to self.openai.chat.completions.create, this turn
    responses,     \* responses received from the primary model, this turn
    rounds,        \* tool rounds completed (handle_tool_call returned), this turn
    evalCalls,     \* calls of self.evaluate with the request it sent, this turn
    rerunCalls,    \* calls of self.rerun with the request it sent, this turn
    rerunResponse, \* local variable `response` of rerun
    tool_calls,    \* local variable `tool_calls` of chat, parameter of handle_tool_call
    results,       \* local list `results` of handle_tool_call
    notifications, \* texts push handed to requests.post, this turn
    posts,         \* what each call of requests.post that has ended did
    earlierRounds  \* whether an earlier turn of this instance ran a tool round

vars == <<me, pc, message, history, messages, response, reply, evaluation,
          returned, raised, callerMessage, callerHistory, primaryCalls,
          responses, rounds, evalCalls, rerunCalls, rerunResponse,
          tool_calls, results, notifications, posts, earlierRounds>>

\* the state of a tool dispatch in progress
dispatch == <<tool_calls, results>>

(***************************************************************************)
(* Bounds                                                                  *)
(***************************************************************************)
MaxRounds == 2   \* tool rounds the primary model may request in one turn
MaxCalls == 2    \* tool calls the primary model may request in one turn

(***************************************************************************)
(* Python values                                                           *)
(***************************************************************************)
PyNone == [py |-> "None"]

PyStr(text) == [py |-> "str", s |-> text]

\* a list held where None may be held as well
PyList(items) == [py |-> "list", items |-> items]

\* a {"role": ..., "content": ...} dict
Dict(role, content) == [role |-> role, content |-> content]

RECURSIVE Join(_, _)
\* sep.join over a sequence of texts
Join(texts, sep) ==
    IF texts = <<>> THEN <<>>
    ELSE IF Len(texts) = 1 THEN Head(texts)
    ELSE Head(texts) \o <<sep>> \o Join(Tail(texts), sep)

\* the tool calls of a message as a sequence: none when the attribute is None
ToolCalls(m) == IF m.tool_calls.py = "list" THEN m.tool_calls.items ELSE <<>>

\* repr of a tool call object inside the repr of a ChatCompletionMessage
ReprToolCall(tc) ==
    <<"ChatCompletionMessageToolCall(id='", tc.id,
      "', function=Function(arguments='", tc.function.arguments,
      "', name='", tc.function.name, "'), type='function')">>

\* str()/repr() of a value interpolated by an f-string; the repr of a
\* ChatCompletionMessage lists the fields of the openai 1.x pydantic model
Format(v) ==
    CASE v.py = "str" -> v.s
      [] v.py = "None" -> <<"None">>
      [] v.py = "ChatCompletionMessage" ->
            <<"ChatCompletionMessage(content=">>
            \o (IF v.content.py = "str" THEN <<"'">> \o v.content.s \o <<"'">>
                ELSE <<"None">>)
            \o <<", refusal=None, role='assistant', annotations=None, ",
                 "audio=None, function_call=None, tool_calls=">>
            \o (IF v.tool_calls.py = "list"
                THEN <<"[">>
                     \o Join([i \in 1..Len(v.tool_calls.items) |->
                                 ReprToolCall(v.tool_calls.items[i])], ", ")
                     \o <<"]">>
                ELSE <<"None">>)
            \o <<")">>

\* repr of one element of a message list
ReprMessage(m) ==
    IF "py" \in DOMAIN m THEN Format(m)
    ELSE <<"{'role': '", m.role, "', 'content': ">>
         \o (IF m.content.py = "str" THEN <<"'">> \o m.content.s \o <<"'">>
             ELSE Format(m.content))
         \o <<"}">>

\* str() of a list of messages, as f"{history}" produces it
FormatList(msgs) ==
    <<"[">> \o Join([i \in 1..Len(msgs) |-> ReprMessage(msgs[i])], ", ")
    \o <<"]">>

(***************************************************************************)
(* json                                                                    *)
(***************************************************************************)
EmptyDict == [k \in {} |-> ""]

\* json_loads that yields {} for a payload that does not parse
json_loads_lenient(s) ==
    CASE s = "{\"email\": \"a@b.c\"}" -> [ok |-> TRUE, value |-> [email |-> "a@b.c"]]
      [] s = "{\"question\": \"q?\"}" -> [ok |-> TRUE, value |-> [question |-> "q?"]]
      [] s = "{\"text\": \"hi\"}"     -> [ok |-> TRUE, value |-> [text |-> "hi"]]
      [] OTHER                        -> [ok |-> TRUE, value |-> EmptyDict]

\* json.loads on the argument payloads the model stub produces:
\* [ok |-> FALSE] stands for json.JSONDecodeError
json_loads(s) ==
    CASE s = "{\"email\": \"a@b.c\"}" -> [ok |-> TRUE, value |-> [email |-> "a@b.c"]]
      [] s = "{\"question\": \"q?\"}" -> [ok |-> TRUE, value |-> [question |-> "q?"]]
      [] s = "{\"text\": \"hi\"}"     -> [ok |-> TRUE, value |-> [text |-> "hi"]]
      [] s = "{}"                     -> [ok |-> TRUE, value |-> EmptyDict]
      [] OTHER                        -> [ok |-> FALSE, value |-> EmptyDict]

\* json.dumps of a tool result: None, a bool, {} or a flat dict of strings
json_dumps(v) ==
    CASE v.py = "None" -> <<"null">>
      [] v.py = "bool" -> IF v.b THEN <<"true">> ELSE <<"false">>
      [] v.py = "dict" /\ DOMAIN v.d = {} -> <<"{}">>
      [] v.py = "dict" /\ DOMAIN v.d = {"recorded"} ->
            <<"{\"recorded\": \"", v.d.recorded, "\"}">>

(***************************************************************************)
(* Module-level functions and objects                                      *)
(***************************************************************************)
\* outcome of calling a module-level object with **arguments: whether it
\* raised, what it returned, and the texts it handed to requests.post
Raise == [raised |-> TRUE, result |-> PyNone, pushed |-> <<>>]

Return(value, texts) == [raised |-> FALSE, result |-> value, pushed |-> texts]

\* what a call of requests.post may do: return a response, or raise
PostOutcomes == {"ok", "raises"}

\* push(text): hands the text to requests.post; returns None when the post
\* returns, whatever the response, and raises when the post raises
push(arguments, post) ==
    IF DOMAIN arguments = {"text"}
    THEN IF post = "ok"
         THEN Return(PyNone, <<arguments.text>>)
         ELSE [raised |-> TRUE, result |-> PyNone, pushed |-> <<arguments.text>>]
    ELSE Raise

\* record_user_details(email, name="Name not provided", notes="not provided")
record_user_details(arguments, post) ==
    IF "email" \in DOMAIN arguments
       /\ DOMAIN arguments \subseteq {"email", "name", "notes"}
    THEN LET name == IF "name" \in DOMAIN arguments
                     THEN arguments.name ELSE "Name not provided"
             notes == IF "notes" \in DOMAIN arguments
                      THEN arguments.notes ELSE "not provided"
             pushed == push([text |-> <<"Recording ", name, " with email ",
                                        arguments.email, " and notes ", notes>>],
                            post)
         IN IF pushed.raised THEN pushed
            ELSE Return([py |-> "dict", d |-> [recorded |-> "ok"]],
                        pushed.pushed)
    ELSE Raise

\* record_unknown_question(question)
record_unknown_question(arguments, post) ==
    IF DOMAIN arguments = {"question"}
    THEN LET pushed == push([text |-> <<"Recording ", arguments.question>>],
                            post)
         IN IF pushed.raised THEN pushed
            ELSE Return([py |-> "dict", d |-> [recorded |-> "ok"]],
                        pushed.pushed)
    ELSE Raise

\* whether load_dotenv finds a .env file: the keys are taken from the
\* process environment here
DotenvFound == FALSE

\* load_dotenv(dotenv_path=None, ...): returns whether a .env file was loaded
load_dotenv(arguments) ==
    IF DOMAIN arguments = {}
    THEN Return([py |-> "bool", b |-> DotenvFound], <<>>)
    ELSE Raise

\* the tools declared to the primary model
tools == <<"record_user_details", "record_unknown_question">>

\* module-level names bound to functions
GlobalFunctions == {"record_user_details", "record_unknown_question", "push",
                    "load_dotenv"}

\* module-level names bound to truthy objects that are not callable, or to
\* classes whose instances json.dumps rejects: line 125 or 126 raises
GlobalObjects == {"tools", "json", "os", "requests", "gr", "me",
                  "record_user_details_json", "record_unknown_question_json",
                  "Me", "Evaluation", "OpenAI", "PdfReader", "BaseModel",
                  "__name__", "__file__", "__builtins__", "__loader__"}

\* globals().get(tool_name)
globals_get(tool_name) ==
    CASE tool_name \in GlobalFunctions -> [py |-> "function", name |-> tool_name]
      [] tool_name \in GlobalObjects -> [py |-> "object", name |-> tool_name]
      [] OTHER -> PyNone

\* tool(**arguments); a str argument of push is the text it posts
CallTool(tool, arguments, post) ==
    CASE tool.py = "function" /\ tool.name = "record_user_details" ->
            record_user_details(arguments, post)
      [] tool.py = "function" /\ tool.name = "record_unknown_question" ->
            record_unknown_question(arguments, post)
      [] tool.py = "function" /\ tool.name = "push" ->
            IF DOMAIN arguments = {"text"}
            THEN push([text |-> <<arguments.text>>], post)
            ELSE Raise
      [] tool.py = "function" /\ tool.name = "load_dotenv" ->
            load_dotenv(arguments)
      [] OTHER -> Raise

\* DispatchOne with the result tagged with the tool name instead of the id
DispatchOne_tagged_by_name(tool_call, post) ==
    LET parsed == json_loads(tool_call.function.arguments)
        tool == globals_get(tool_call.function.name)
        call == IF tool.py # "None" THEN CallTool(tool, parsed.value, post)
                ELSE Return([py |-> "dict", d |-> EmptyDict], <<>>)
    IN IF ~parsed.ok THEN Raise
       ELSE IF call.raised THEN call
       ELSE [raised |-> FALSE,
             result |-> [role |-> "tool",
                         content |-> PyStr(json_dumps(call.result)),
                         tool_call_id |-> tool_call.function.name],
             pushed |-> call.pushed]

\* one iteration of the loop of handle_tool_call (lines 118-126), given what
\* requests.post does if the tool reaches it
DispatchOne(tool_call, post) ==
    LET tool_name == tool_call.function.name
        parsed == json_loads(tool_call.function.arguments)
        tool == globals_get(tool_name)
        call == IF tool.py # "None" THEN CallTool(tool, parsed.value, post)
                ELSE Return([py |-> "dict", d |-> EmptyDict], <<>>)
    IN IF ~parsed.ok THEN Raise
       ELSE IF call.raised THEN call
       ELSE [raised |-> FALSE,
             result |-> [role |-> "tool",
                         content |-> PyStr(json_dumps(call.result)),
                         tool_call_id |-> tool_call.id],
             pushed |-> call.pushed]

(***************************************************************************)
(* Prompts                                                                 *)
(***************************************************************************)
\* Me.system_prompt
system_prompt(self) ==
    <<"You are acting as ", self.name,
      ". You are answering questions on ", self.name,
      "'s website, particularly questions related to ", self.name,
      "'s career, background, skills and experience. [...] ",
      "\n\n## Summary:\n", self.summary,
      "\n\n## LinkedIn Profile:\n", self.linkedin, "\n\n",
      "With this context, please chat with the user, always staying in character as ",
      self.name, ".">>

\* Me.evaluator_system_prompt
evaluator_system_prompt(self) ==
    <<"You are an evaluator that decides whether a response to a question is acceptable. [...] The Agent is playing the role of ",
      self.name, " and is representing ", self.name,
      " on their website. [...] The Agent has been provided with context on ",
      self.name,
      " in the form of their summary and LinkedIn details. Here's the information:",
      "\n\n## Summary:\n", self.summary,
      "\n\n## LinkedIn Profile:\n", self.linkedin, "\n\n",
      "With this context, please evaluate the latest response, replying with whether the response is acceptable and your feedback.">>

\* Me.evaluator_user_prompt
evaluator_user_prompt(reply_, message_, history_) ==
    <<"Here's the conversation between the User and the Agent: \n\n">>
    \o FormatList(history_) \o <<"\n\n">>
    \o <<"Here's the latest message from the User: \n\n">>
    \o Format(message_) \o <<"\n\n">>
    \o <<"Here's the latest response from the Agent: \n\n">>
    \o Format(reply_) \o <<"\n\n">>
    \o <<"Please evaluate the response, replying with whether it is acceptable and your feedback.">>

\* the messages Me.evaluate sends to the evaluator model
evaluate_messages(self, reply_, message_, history_) ==
    <<Dict("system", PyStr(evaluator_system_prompt(self))),
      Dict("user", PyStr(evaluator_user_prompt(reply_, message_, history_)))>>

\* updated_system_prompt without the reason for rejection
updated_system_prompt_without_feedback(self, reply_, feedback) ==
    system_prompt(self)
    \o <<"\n\n## Previous answer rejected\nYou just tried to reply, but the quality control rejected your reply\n">>
    \o <<"## Your attempted answer:\n">> \o Format(reply_) \o <<"\n\n">>

\* updated_system_prompt of Me.rerun
updated_system_prompt(self, reply_, feedback) ==
    system_prompt(self)
    \o <<"\n\n## Previous answer rejected\nYou just tried to reply, but the quality control rejected your reply\n">>
    \o <<"## Your attempted answer:\n">> \o Format(reply_) \o <<"\n\n">>
    \o <<"## Reason for rejection:\n">> \o feedback \o <<"\n\n">>

\* the messages Me.rerun sends to the secondary model
rerun_messages(self, reply_, message_, history_, feedback) ==
    <<Dict("system", PyStr(updated_system_prompt(self, reply_, feedback)))>>
    \o history_
    \o <<Dict("user", message_)>>

\* chat_messages with the history placed after the new user message
chat_messages_history_last(self, message_, history_) ==
    <<Dict("system", PyStr(system_prompt(self)))>>
    \o <<Dict("user", message_)>>
    \o history_

\* the initial message list of Me.chat
chat_messages(self, message_, history_) ==
    <<Dict("system", PyStr(system_prompt(self)))>>
    \o history_
    \o <<Dict("user", message_)>>

(***************************************************************************)
(* Inputs: what the caller and the three model backends may produce        *)
(***************************************************************************)
ToolCall(id, name, arguments) ==
    [id |-> id, function |-> [name |-> name, arguments |-> arguments]]

\* the tool calls a primary response may carry: declared tools with fitting
\* arguments, an undeclared name, module-level names that are not tools,
\* payloads that do not parse and payloads that do not fit the signature
ToolCallPool ==
    { ToolCall("call_1", "record_user_details", "{\"email\": \"a@b.c\"}"),
      ToolCall("call_2", "record_unknown_question", "{\"question\": \"q?\"}"),
      ToolCall("call_1", "lookup_weather", "{}"),
      ToolCall("call_2", "push", "{\"text\": \"hi\"}"),
      ToolCall("call_2", "lookup_weather", "{\"email\": "),
      ToolCall("call_1", "record_unknown_question", "{\"email\": "),
      ToolCall("call_1", "record_unknown_question", "{\"email\": \"a@b.c\"}"),
      ToolCall("call_2", "tools", "{}") }

SeqsUpTo(S, n) == UNION { [1..k -> S] : k \in 1..n }

\* response.choices[0].message
ChatCompletionMessage(content, tool_calls_) ==
    [py |-> "ChatCompletionMessage", role |-> "assistant",
     content |-> content, tool_calls |-> tool_calls_]

\* a chat completion, reduced to choices[0]
Completion(finish_reason, content, tool_calls_) ==
    [finish_reason |-> finish_reason,
     message |-> ChatCompletionMessage(content, tool_calls_)]

\* primary responses that request tools: with a list of tool calls, with an
\* empty list, and with tool_calls = None
ToolRequestResponses ==
    { Completion("tool_calls", PyNone, PyList(tcs)) :
         tcs \in SeqsUpTo(ToolCallPool, MaxCalls) }
    \cup { Completion("tool_calls", PyNone, PyList(<<>>)),
           Completion("tool_calls", PyNone, PyNone) }

\* primary responses with any other finish reason
PlainResponses ==
    { Completion("stop", PyStr(<<"r1">>), PyNone),
      Completion("length", PyStr(<<"r1">>), PyNone),
      Completion("content_filter", PyNone, PyNone),
      Completion("stop", PyStr(<<"r2">>),
                 PyList(<<ToolCall("call_1", "record_unknown_question",
                                   "{\"question\": \"q?\"}")>>)) }

\* the (message, history) pairs the caller may pass to chat
ChatInputs ==
    { << <<"m1">>, <<>> >>,
      << <<"m2">>,
         <<Dict("user", PyStr(<<"h1">>)), Dict("assistant", PyStr(<<"a1">>))>> >> }

\* the parsed Evaluation objects the evaluator model may produce
Evaluations ==
    { [py |-> "Evaluation", is_acceptable |-> TRUE, feedback |-> <<"Y">>],
      [py |-> "Evaluation", is_acceptable |-> FALSE, feedback |-> <<"X">>],
      [py |-> "Evaluation", is_acceptable |-> FALSE, feedback |-> <<"Y">>] }

\* ways the evaluation can fail: the backend call raises, the payload does
\* not validate against Evaluation, or parsed is None
EvaluateFailures == { "backend", "non_conformant", "parsed_none" }

\* responses the secondary model may produce
RerunResponses ==
    { Completion("stop", PyStr(<<"r1">>), PyNone),
      Completion("stop", PyStr(<<"g1">>), PyNone) }

(***************************************************************************)
(* State machine of one Me instance serving turns one at a time            *)
(***************************************************************************)
Init ==
    /\ me = [name |-> "Arpan Bandyopadhyay", summary |-> "summary.txt",
             linkedin |-> "linkedin_arpan.pdf"]
    /\ pc = "idle"
    /\ message = PyNone
    /\ history = <<>>
    /\ messages = <<>>
    /\ response = PyNone
    /\ reply = PyNone
    /\ evaluation = PyNone
    /\ returned = PyNone
    /\ raised = ""
    /\ callerMessage = <<>>
    /\ callerHistory = <<>>
    /\ primaryCalls = <<>>
    /\ responses = <<>>
    /\ rounds = 0
    /\ evalCalls = <<>>
    /\ rerunCalls = <<>>
    /\ rerunResponse = PyNone
    /\ tool_calls = PyNone
    /\ results = <<>>
    /\ notifications = <<>>
    /\ posts = <<>>
    /\ earlierRounds = FALSE

RECURSIVE CallsRequested(_)
\* number of tool calls carried by a sequence of primary responses
CallsRequested(rs) ==
    IF rs = <<>> THEN 0
    ELSE Len(ToolCalls(Head(rs).message)) + CallsRequested(Tail(rs))

\* the request of line 156
PrimaryRequest(msgs) ==
    [model |-> "gpt-4o-mini", messages |-> msgs, tools |-> tools]

\* the request of line 237
EvaluateRequest(reply_, message_, history_) ==
    [model |-> "gemini-2.0-flash",
     messages |-> evaluate_messages(me, reply_, message_, history_),
     response_format |-> "Evaluation"]

\* chat that keeps the message list of the previous turn and appends the new
\* user message to it
chat_reusing_messages(message_, history_) ==
    /\ pc \in {"idle", "returned", "raised"}
    /\ LET msgs == IF messages = <<>>
                   THEN chat_messages(me, PyStr(message_), history_)
                   ELSE messages \o <<Dict("user", PyStr(message_))>>
       IN /\ messages' = msgs
          /\ primaryCalls' = <<PrimaryRequest(msgs)>>
    /\ message' = PyStr(message_)
    /\ history' = history_
    /\ callerMessage' = message_
    /\ callerHistory' = history_
    /\ response' = PyNone
    /\ reply' = PyNone
    /\ evaluation' = PyNone
    /\ returned' = PyNone
    /\ raised' = ""
    /\ responses' = <<>>
    /\ rounds' = 0
    /\ evalCalls' = <<>>
    /\ rerunCalls' = <<>>
    /\ rerunResponse' = PyNone
    /\ tool_calls' = PyNone
    /\ results' = <<>>
    /\ notifications' = <<>>
    /\ posts' = <<>>
    /\ pc' = "primary"
    /\ UNCHANGED me

\* chat is called (lines 151-156): build messages, issue the first invocation
chat(message_, history_) ==
    /\ pc \in {"idle", "returned", "raised"}
    /\ LET msgs == chat_messages(me, PyStr(message_), history_)
       IN /\ messages' = msgs
          /\ primaryCalls' = <<PrimaryRequest(msgs)>>
    /\ message' = PyStr(message_)
    /\ history' = history_
    /\ callerMessage' = message_
    /\ callerHistory' = history_
    /\ response' = PyNone
    /\ reply' = PyNone
    /\ evaluation' = PyNone
    /\ returned' = PyNone
    /\ raised' = ""
    /\ responses' = <<>>
    /\ rounds' = 0
    /\ evalCalls' = <<>>
    /\ rerunCalls' = <<>>
    /\ rerunResponse' = PyNone
    /\ tool_calls' = PyNone
    /\ results' = <<>>
    /\ notifications' = <<>>
    /\ posts' = <<>>
    /\ pc' = "primary"
    /\ UNCHANGED me

\* the primary invocation of line 156 raises
primary_raises ==
    /\ pc = "primary"
    /\ pc' = "raised"
    /\ raised' = "primary"
    /\ UNCHANGED <<me, message, history, messages, response, reply, evaluation,
                   returned, callerMessage, callerHistory, primaryCalls,
                   responses, rounds, evalCalls, rerunCalls,
                   rerunResponse, dispatch, notifications, posts>>

\* tool_round_completes with `if` in place of `while`: after one tool round
\* the response at hand is taken as the candidate and evaluated
tool_round_completes_once(message_, results_) ==
    /\ messages' = messages \o <<message_>> \o results_
    /\ rounds' = rounds + 1
    /\ reply' = message_.content
    /\ evalCalls' = Append(evalCalls,
                           [reply |-> message_.content,
                            message |-> message_,
                            history |-> history,
                            request |-> EvaluateRequest(message_.content,
                                                        message_, history)])
    /\ pc' = "evaluate"
    /\ UNCHANGED primaryCalls

\* tool_round_completes with a cap of two rounds: after the second round the
\* loop is left and the response at hand is evaluated
tool_round_completes_capped(message_, results_) ==
    /\ messages' = messages \o <<message_>> \o results_
    /\ rounds' = rounds + 1
    /\ IF rounds + 1 < 2
       THEN /\ primaryCalls' =
                  Append(primaryCalls,
                         PrimaryRequest(messages \o <<message_>> \o results_))
            /\ pc' = "primary"
            /\ UNCHANGED <<reply, evalCalls>>
       ELSE /\ reply' = message_.content
            /\ evalCalls' = Append(evalCalls,
                                   [reply |-> message_.content,
                                    message |-> message_,
                                    history |-> history,
                                    request |-> EvaluateRequest(message_.content,
                                                                message_, history)])
            /\ pc' = "evaluate"
            /\ UNCHANGED primaryCalls

\* handle_tool_call has returned its results (line 127): the tool-request
\* message and the results are appended (lines 162-163) and the loop issues
\* the next primary invocation (lines 155-156)
tool_round_completes(message_, results_) ==
    /\ messages' = messages \o <<message_>> \o results_
    /\ rounds' = rounds + 1
    /\ primaryCalls' =
          Append(primaryCalls,
                 PrimaryRequest(messages \o <<message_>> \o results_))
    /\ pc' = "primary"
    /\ UNCHANGED <<reply, evalCalls>>

\* the primary model returns finish_reason == "tool_calls" (lines 158-161):
\* `message` is rebound and handle_tool_call is entered; iterating over None
\* raises TypeError, an empty list is returned from at once
primary_requests_tools(resp) ==
    /\ pc = "primary"
    /\ resp.finish_reason = "tool_calls"
    /\ rounds < MaxRounds
    /\ CallsRequested(responses) + Len(ToolCalls(resp.message)) <= MaxCalls
    /\ response' = resp
    /\ responses' = Append(responses, resp)
    /\ message' = resp.message
    /\ tool_calls' = resp.message.tool_calls
    /\ results' = <<>>
    /\ IF resp.message.tool_calls.py = "None"
       THEN /\ pc' = "raised"
            /\ raised' = "handle_tool_call"
            /\ UNCHANGED <<messages, rounds, primaryCalls, reply, evalCalls>>
       ELSE IF resp.message.tool_calls.items = <<>>
       THEN /\ tool_round_completes(resp.message, <<>>)
            /\ UNCHANGED raised
       ELSE /\ pc' = "handle_tool_call"
            /\ UNCHANGED <<messages, rounds, primaryCalls, reply, evalCalls,
                           raised>>
    /\ UNCHANGED <<me, history, evaluation, returned, callerMessage,
                   callerHistory, rerunCalls, rerunResponse, notifications,
                   posts>>

\* iteration_ends that answers {} for a tool call that fails and goes on
\* with the next one
iteration_ends_skipping_failures(tool_call, one) ==
    LET result == IF one.raised
                  THEN [role |-> "tool", content |-> PyStr(<<"{}">>),
                        tool_call_id |-> tool_call.id]
                  ELSE one.result
    IN /\ results' = Append(results, result)
       /\ UNCHANGED raised
       /\ IF Len(results) + 1 = Len(tool_calls.items)
          THEN tool_round_completes(message, Append(results, result))
          ELSE /\ pc' = "handle_tool_call"
               /\ UNCHANGED <<messages, rounds, primaryCalls, reply, evalCalls>>

\* the end of one iteration of the loop of handle_tool_call (lines 125-126),
\* `one` being what the iteration did: an exception leaves handle_tool_call
\* and chat, otherwise the result is appended and, after the last iteration,
\* the round completes (line 127)
iteration_ends(tool_call, one) ==
    IF one.raised
    THEN /\ pc' = "raised"
         /\ raised' = "handle_tool_call"
         /\ UNCHANGED <<results, messages, rounds, primaryCalls, reply,
                        evalCalls>>
    ELSE /\ results' = Append(results, one.result)
         /\ UNCHANGED raised
         /\ IF Len(results) + 1 = Len(tool_calls.items)
            THEN tool_round_completes(message, Append(results, one.result))
            ELSE /\ pc' = "handle_tool_call"
                 /\ UNCHANGED <<messages, rounds, primaryCalls, reply,
                                evalCalls>>

\* the tool call of the iteration at hand
CurrentToolCall == tool_calls.items[Len(results) + 1]

\* one iteration of the loop of handle_tool_call (lines 117-126) up to the
\* point where it blocks: a tool that notifies hands its text to
\* requests.post (line 25) and waits for it; any other tool call runs the
\* iteration to its end
handle_tool_call ==
    /\ pc = "handle_tool_call"
    /\ LET one == DispatchOne(CurrentToolCall, "ok")
       IN IF one.pushed # <<>>
          THEN /\ notifications' = notifications \o one.pushed
               /\ pc' = "requests_post"
               /\ UNCHANGED <<results, raised, messages, rounds, primaryCalls,
                              reply, evalCalls>>
          ELSE /\ iteration_ends(CurrentToolCall, one)
               /\ UNCHANGED notifications
    /\ UNCHANGED <<me, message, history, response, evaluation, returned,
                   callerMessage, callerHistory, responses, rerunCalls,
                   rerunResponse, tool_calls, posts>>

\* the requests.post the iteration waits for returns or raises (line 25);
\* the iteration then runs to its end (lines 26-32, 40 or 47, 125-126)
requests_post(post) ==
    /\ pc = "requests_post"
    /\ posts' = Append(posts, post)
    /\ iteration_ends(CurrentToolCall, DispatchOne(CurrentToolCall, post))
    /\ UNCHANGED <<me, message, history, response, evaluation, returned,
                   callerMessage, callerHistory, responses, rerunCalls,
                   rerunResponse, tool_calls, notifications>>

\* primary_answers that dispatches the first tool call attached to the
\* response before the evaluator is invoked
primary_answers_dispatching_attached(resp) ==
    /\ pc = "primary"
    /\ resp.finish_reason # "tool_calls"
    /\ response' = resp
    /\ responses' = Append(responses, resp)
    /\ reply' = resp.message.content
    /\ LET pushed == IF ToolCalls(resp.message) = <<>> THEN <<>>
                     ELSE DispatchOne(ToolCalls(resp.message)[1], "ok").pushed
       IN /\ notifications' = notifications \o pushed
          /\ posts' = posts \o [k \in 1..Len(pushed) |-> "ok"]
    /\ evalCalls' = Append(evalCalls,
                           [reply |-> resp.message.content,
                            message |-> message,
                            history |-> history,
                            request |-> EvaluateRequest(resp.message.content,
                                                        message, history)])
    /\ pc' = "evaluate"
    /\ UNCHANGED <<me, message, history, messages, evaluation, returned, raised,
                   callerMessage, callerHistory, primaryCalls, rounds,
                   rerunCalls, rerunResponse, dispatch>>

\* the primary model returns any other finish reason (lines 158, 164-169):
\* the loop ends and the evaluator is invoked
primary_answers(resp) ==
    /\ pc = "primary"
    /\ resp.finish_reason # "tool_calls"
    /\ response' = resp
    /\ responses' = Append(responses, resp)
    /\ reply' = resp.message.content
    /\ evalCalls' = Append(evalCalls,
                           [reply |-> resp.message.content,
                            message |-> message,
                            history |-> history,
                            request |-> EvaluateRequest(resp.message.content,
                                                        message, history)])
    /\ pc' = "evaluate"
    /\ UNCHANGED <<me, message, history, messages, evaluation, returned, raised,
                   callerMessage, callerHistory, primaryCalls, rounds,
                   rerunCalls, rerunResponse, dispatch, notifications, posts>>

\* evaluate_raises with the failure swallowed and the candidate returned
evaluate_raises_defaults_to_accept(failure) ==
    /\ pc = "evaluate"
    /\ pc' = "returned"
    /\ returned' = reply
    /\ UNCHANGED <<me, message, history, messages, response, reply, evaluation,
                   raised, callerMessage, callerHistory, primaryCalls,
                   responses, rounds, evalCalls, rerunCalls, rerunResponse,
                   notifications,
                   dispatch, posts>>

\* the evaluation fails (lines 237-238, or line 171 when parsed is None)
evaluate_raises(failure) ==
    /\ pc = "evaluate"
    /\ pc' = "raised"
    /\ raised' = "evaluate"
    /\ UNCHANGED <<me, message, history, messages, response, reply, evaluation,
                   returned, callerMessage, callerHistory, primaryCalls,
                   responses, rounds, evalCalls, rerunCalls,
                   rerunResponse, notifications,
                   dispatch, posts>>

\* the request of line 191 with the tool list of line 156 passed along
RerunRequest_with_tools(reply_, message_, history_, feedback) ==
    [model |-> "gemini-2.0-flash",
     messages |-> rerun_messages(me, reply_, message_, history_, feedback),
     tools |-> tools]

\* the request of line 191
RerunRequest(reply_, message_, history_, feedback) ==
    [model |-> "gemini-2.0-flash",
     messages |-> rerun_messages(me, reply_, message_, history_, feedback)]

\* evaluate_returns that regenerates whatever the verdict
evaluate_returns_always_rerun(ev) ==
    /\ pc = "evaluate"
    /\ evaluation' = ev
    /\ rerunCalls' = Append(rerunCalls,
                            [reply |-> reply,
                             message |-> message,
                             history |-> history,
                             feedback |-> ev.feedback,
                             request |-> RerunRequest(reply, message,
                                                      history, ev.feedback)])
    /\ pc' = "rerun"
    /\ UNCHANGED <<me, message, history, messages, response, reply, returned,
                   raised, callerMessage, callerHistory, primaryCalls,
                   responses, rounds, evalCalls, rerunResponse, notifications,
                   dispatch, posts>>

\* the evaluator returns an Evaluation (lines 169-178, 186-191)
evaluate_returns(ev) ==
    /\ pc = "evaluate"
    /\ evaluation' = ev
    /\ IF ev.is_acceptable
       THEN /\ returned' = reply
            /\ pc' = "returned"
            /\ UNCHANGED rerunCalls
       ELSE /\ rerunCalls' = Append(rerunCalls,
                                    [reply |-> reply,
                                     message |-> message,
                                     history |-> history,
                                     feedback |-> ev.feedback,
                                     request |-> RerunRequest(reply, message,
                                                              history, ev.feedback)])
            /\ pc' = "rerun"
            /\ UNCHANGED returned
    /\ UNCHANGED <<me, message, history, messages, response, reply, raised,
                   callerMessage, callerHistory, primaryCalls, responses,
                   rounds, evalCalls, rerunResponse, notifications,
                   dispatch, posts>>

\* the secondary invocation of line 191 raises
rerun_raises ==
    /\ pc = "rerun"
    /\ pc' = "raised"
    /\ raised' = "rerun"
    /\ UNCHANGED <<me, message, history, messages, response, reply, evaluation,
                   returned, callerMessage, callerHistory, primaryCalls,
                   responses, rounds, evalCalls, rerunCalls,
                   rerunResponse, notifications,
                   dispatch, posts>>

\* rerun_returns with the regenerated reply handed back to the evaluator
rerun_returns_reevaluated(resp) ==
    /\ pc = "rerun"
    /\ rerunResponse' = resp
    /\ reply' = resp.message.content
    /\ evalCalls' = Append(evalCalls,
                           [reply |-> resp.message.content,
                            message |-> message,
                            history |-> history,
                            request |-> EvaluateRequest(resp.message.content,
                                                        message, history)])
    /\ pc' = "evaluate"
    /\ UNCHANGED <<me, message, history, messages, response, evaluation,
                   returned, raised, callerMessage, callerHistory, primaryCalls,
                   responses, rounds, rerunCalls, notifications,
                   dispatch, posts>>

\* the secondary model returns (lines 192, 177-178)
rerun_returns(resp) ==
    /\ pc = "rerun"
    /\ rerunResponse' = resp
    /\ reply' = resp.message.content
    /\ returned' = resp.message.content
    /\ pc' = "returned"
    /\ UNCHANGED <<me, message, history, messages, response, evaluation, raised,
                   callerMessage, callerHistory, primaryCalls, responses,
                   rounds, evalCalls, rerunCalls, notifications,
                   dispatch, posts>>

\* one turn observed at a time: nothing is recorded about earlier turns
Next ==
    \/ (\E input \in ChatInputs : chat(input[1], input[2]))
       /\ UNCHANGED earlierRounds
    \/ primary_raises /\ UNCHANGED earlierRounds
    \/ (\E resp \in ToolRequestResponses : primary_requests_tools(resp))
       /\ UNCHANGED earlierRounds
    \/ handle_tool_call /\ UNCHANGED earlierRounds
    \/ (\E post \in PostOutcomes : requests_post(post))
       /\ UNCHANGED earlierRounds
    \/ (\E resp \in PlainResponses : primary_answers(resp))
       /\ UNCHANGED earlierRounds
    \/ (\E failure \in EvaluateFailures : evaluate_raises(failure))
       /\ UNCHANGED earlierRounds
    \/ (\E ev \in Evaluations : evaluate_returns(ev))
       /\ UNCHANGED earlierRounds
    \/ rerun_raises /\ UNCHANGED earlierRounds
    \/ (\E resp \in RerunResponses : rerun_returns(resp))
       /\ UNCHANGED earlierRounds

Spec == Init /\ [][Next]_vars

\* a sequence of turns served by one instance, with a record of whether an
\* earlier turn ran a tool round
TurnsNext ==
    \/ (\E input \in ChatInputs : chat(input[1], input[2]))
       /\ earlierRounds' = (earlierRounds \/ rounds > 0)
    \/ primary_raises /\ UNCHANGED earlierRounds
    \/ (\E resp \in ToolRequestResponses : primary_requests_tools(resp))
       /\ UNCHANGED earlierRounds
    \/ handle_tool_call /\ UNCHANGED earlierRounds
    \/ (\E post \in PostOutcomes : requests_post(post))
       /\ UNCHANGED earlierRounds
    \/ (\E resp \in PlainResponses : primary_answers(resp))
       /\ UNCHANGED earlierRounds
    \/ (\E failure \in EvaluateFailures : evaluate_raises(failure))
       /\ UNCHANGED earlierRounds
    \/ (\E ev \in Evaluations : evaluate_returns(ev))
       /\ UNCHANGED earlierRounds
    \/ rerun_raises /\ UNCHANGED earlierRounds
    \/ (\E resp \in RerunResponses : rerun_returns(resp))
       /\ UNCHANGED earlierRounds

TurnsSpec == Init /\ [][TurnsNext]_vars

\* tool requests all of whose tool calls return when the posts return: a
\* declared tool with fitting arguments and an undeclared name
ReturningToolRequests ==
    { r \in ToolRequestResponses :
        /\ r.message.tool_calls.py = "list"
        /\ \A j \in 1..Len(ToolCalls(r.message)) :
              /\ ToolCalls(r.message)[j].function.name
                    \in {"record_user_details", "lookup_weather"}
              /\ ~DispatchOne(ToolCalls(r.message)[j], "ok").raised }

\* turns in which every backend call, every tool call and every post returns
NextReturning ==
    \/ (\E input \in ChatInputs : chat(input[1], input[2]))
       /\ UNCHANGED earlierRounds
    \/ (\E resp \in ReturningToolRequests : primary_requests_tools(resp))
       /\ UNCHANGED earlierRounds
    \/ handle_tool_call /\ UNCHANGED earlierRounds
    \/ requests_post("ok") /\ UNCHANGED earlierRounds
    \/ (\E resp \in PlainResponses : primary_answers(resp))
       /\ UNCHANGED earlierRounds
    \/ (\E ev \in Evaluations : evaluate_returns(ev))
       /\ UNCHANGED earlierRounds
    \/ (\E resp \in RerunResponses : rerun_returns(resp))
       /\ UNCHANGED earlierRounds

\* the calls are blocking and return: the primary model eventually gives a
\* plain answer, each post returns, the evaluator and the secondary model
\* eventually respond
LiveSpec ==
    /\ Init
    /\ [][NextReturning]_vars
    /\ WF_vars((\E resp \in PlainResponses : primary_answers(resp))
               /\ UNCHANGED earlierRounds)
    /\ WF_vars(handle_tool_call /\ UNCHANGED earlierRounds)
    /\ WF_vars(requests_post("ok") /\ UNCHANGED earlierRounds)
    /\ WF_vars((\E ev \in Evaluations : evaluate_returns(ev))
               /\ UNCHANGED earlierRounds)
    /\ WF_vars((\E resp \in RerunResponses : rerun_returns(resp))
               /\ UNCHANGED earlierRounds)

(***************************************************************************)
(* Helpers of the properties                                               *)
(***************************************************************************)
\* elements of a message list, by kind
IsToolRequest(m) == "py" \in DOMAIN m

IsToolResult(m) == "tool_call_id" \in DOMAIN m

\* the candidate reply: the content of the last primary response
Candidate == responses[Len(responses)].message.content

\* text sub occurs in text
Contains(text, sub) ==
    \E i \in 1..(Len(text) - Len(sub) + 1) :
        SubSeq(text, i, i + Len(sub) - 1) = sub

\* in a message list, every tool request is followed by one tool message per
\* tool call, in call order, tagged with the call's id, and by no further
\* tool message; and every tool message belongs to such a block
RoundTrip(msgs) ==
    /\ \A i \in 1..Len(msgs) :
          IsToolRequest(msgs[i]) =>
             LET n == Len(ToolCalls(msgs[i]))
             IN /\ i + n <= Len(msgs)
                /\ \A j \in 1..n :
                      /\ IsToolResult(msgs[i + j])
                      /\ msgs[i + j].tool_call_id = ToolCalls(msgs[i])[j].id
                /\ i + n + 1 <= Len(msgs) => ~IsToolResult(msgs[i + n + 1])
    /\ \A i \in 1..Len(msgs) :
          IsToolResult(msgs[i]) =>
             \E k \in 1..(i - 1) :
                /\ IsToolRequest(msgs[k])
                /\ i - k <= Len(ToolCalls(msgs[k]))

(***************************************************************************)
(* Claims                                                                  *)
(***************************************************************************)
\* C1: whenever chat issues a primary-model invocation, every tool call of
\* every tool-request message in the message sequence is followed by exactly
\* one tool message with the same tool_call_id, in call order.
C1_ToolRoundTrip ==
    \A c \in 1..Len(primaryCalls) : RoundTrip(primaryCalls[c].messages)

\* C1 witness: an invocation issued after two rounds, one of them with two
\* tool calls that carry different ids
C1_Witness ==
    /\ pc = "primary"
    /\ rounds = 2
    /\ \E i \in 1..Len(messages) :
          /\ IsToolRequest(messages[i])
          /\ Len(ToolCalls(messages[i])) = 2
          /\ ToolCalls(messages[i])[1].id # ToolCalls(messages[i])[2].id

\* C2: the evaluator is invoked with the candidate reply, the original user
\* message passed to chat and the caller-supplied history, whatever the
\* number of tool rounds; no tool-request message is part of its input.
C2_EvaluatorInput ==
    \A i \in 1..Len(evalCalls) :
       /\ evalCalls[i].reply = Candidate
       /\ evalCalls[i].message = PyStr(callerMessage)
       /\ evalCalls[i].history = callerHistory
       /\ evalCalls[i].request.messages[2].content.s =
             evaluator_user_prompt(Candidate, PyStr(callerMessage), callerHistory)

\* C3: on rejection the secondary model receives exactly the annotated system
\* message, the caller-supplied history and one user message whose content
\* is the original user message, with or without earlier tool rounds.
C3_RerunMessages ==
    \A i \in 1..Len(rerunCalls) :
       LET msgs == rerunCalls[i].request.messages
       IN /\ Len(msgs) = Len(callerHistory) + 2
          /\ msgs[1].role = "system"
          /\ SubSeq(msgs, 2, Len(msgs) - 1) = callerHistory
          /\ msgs[Len(msgs)] = Dict("user", PyStr(callerMessage))

\* C4: if the evaluator accepts, chat returns the content of the last primary
\* response unchanged and the secondary model is not invoked in that turn.
C4_AcceptanceShortCircuit ==
    (evaluation.py = "Evaluation" /\ evaluation.is_acceptable) =>
       /\ pc = "returned"
       /\ returned = Candidate
       /\ rerunCalls = <<>>
       /\ rerunResponse = PyNone

\* C4 witness: a turn with a tool round whose candidate was accepted
C4_Witness ==
    /\ pc = "returned"
    /\ evaluation.py = "Evaluation"
    /\ evaluation.is_acceptable
    /\ rounds >= 1
    /\ returned = PyStr(<<"r2">>)

\* C5: if the evaluator rejects with feedback X, the secondary model is
\* invoked with a system prompt that is the grounding system prompt extended
\* with the rejected candidate text and with X, and chat returns the
\* secondary model's output.
C5_RegenerationTrigger ==
    (evaluation.py = "Evaluation" /\ ~evaluation.is_acceptable) =>
       /\ Len(rerunCalls) = 1
       /\ LET sys == rerunCalls[1].request.messages[1]
              grounding == system_prompt(me)
              annotation == SubSeq(sys.content.s, Len(grounding) + 1,
                                   Len(sys.content.s))
          IN /\ sys.role = "system"
             /\ SubSeq(sys.content.s, 1, Len(grounding)) = grounding
             /\ Contains(annotation, Format(Candidate))
             /\ Contains(annotation, evaluation.feedback)
       /\ pc \in {"rerun", "returned", "raised"}
       /\ pc = "returned" =>
             /\ rerunResponse # PyNone
             /\ returned = rerunResponse.message.content

\* C5 witness: a rejected candidate "r2" with feedback X, regenerated as "g1"
C5_Witness ==
    /\ pc = "returned"
    /\ evaluation.py = "Evaluation"
    /\ ~evaluation.is_acceptable
    /\ evaluation.feedback = <<"X">>
    /\ Candidate = PyStr(<<"r2">>)
    /\ returned = PyStr(<<"g1">>)

\* C6: in a turn the evaluator is invoked at most once and the secondary
\* model at most once; the evaluator only ever receives the candidate, and
\* once regeneration has started the turn only ends (no call is added).
C6_AtMostOnce ==
    /\ [](/\ Len(evalCalls) <= 1
          /\ Len(rerunCalls) <= 1
          /\ \A i \in 1..Len(evalCalls) : evalCalls[i].reply = Candidate
          /\ rerunCalls # <<>> => Len(evalCalls) = 1)
    /\ [][pc = "rerun" =>
            /\ pc' \in {"returned", "raised"}
            /\ evalCalls' = evalCalls
            /\ rerunCalls' = rerunCalls
            /\ primaryCalls' = primaryCalls]_vars
    /\ [][(pc = "returned" /\ rerunCalls # <<>>) =>
            (pc' = "primary" /\ evalCalls' = <<>> /\ rerunCalls' = <<>>)]_vars

\* C6 witness: a turn that returned a regenerated reply
C6_Witness ==
    /\ pc = "returned"
    /\ Len(rerunCalls) = 1
    /\ Len(evalCalls) = 1
    /\ rerunResponse # PyNone
    /\ returned # Candidate

\* a tool dispatch is in progress: at the top of an iteration of the loop of
\* handle_tool_call, or inside one, waiting for requests.post
Dispatching == pc \in {"handle_tool_call", "requests_post"}

\* the declared tool names
Registry == { tools[i] : i \in 1..Len(tools) }

\* C7: a tool call whose name is absent from the registry never raises and
\* yields a tool result with payload {} tagged with the call's id, and the
\* next model invocation is issued: once the dispatch of a round of such
\* calls is over, it has not raised, the results are in the message
\* sequence and another invocation was issued.
C7_UnknownToolTolerance ==
    (/\ response # PyNone
     /\ response.finish_reason = "tool_calls"
     /\ ~Dispatching
     /\ ToolCalls(response.message) # <<>>
     /\ \A j \in 1..Len(ToolCalls(response.message)) :
           ToolCalls(response.message)[j].function.name \notin Registry) =>
       LET tcs == ToolCalls(response.message)
           n == Len(tcs)
       IN /\ raised # "handle_tool_call"
          /\ Len(primaryCalls) = Len(responses) + 1
          /\ \A j \in 1..n :
                messages[Len(messages) - n + j] =
                   [role |-> "tool", content |-> PyStr(<<"{}">>),
                    tool_call_id |-> tcs[j].id]

\* the argument payload of a tool call does not parse
Malformed(tc) ==
    tc.function.arguments
       \notin { "{\"email\": \"a@b.c\"}", "{\"question\": \"q?\"}",
                "{\"text\": \"hi\"}", "{}" }

\* a dispatched round that holds a tool call whose arguments do not parse
MalformedRound ==
    /\ response # PyNone
    /\ response.finish_reason = "tool_calls"
    /\ \E j \in 1..Len(ToolCalls(response.message)) :
          Malformed(ToolCalls(response.message)[j])

\* C8: if a tool call of a dispatched round has arguments that fail to
\* parse, chat raises: the round never completes, the iteration that reaches
\* the call raises out of chat without posting, no reply is returned, and no
\* further primary invocation, evaluation or regeneration takes place in the
\* turn.
C8_MalformedArgumentsFatal ==
    /\ [](MalformedRound =>
            /\ Dispatching \/ pc = "raised"
            /\ pc = "raised" => raised = "handle_tool_call"
            /\ returned = PyNone
            /\ Len(primaryCalls) = Len(responses)
            /\ evalCalls = <<>>
            /\ rerunCalls = <<>>)
    /\ [][(pc = "handle_tool_call"
           /\ Malformed(tool_calls.items[Len(results) + 1])) =>
            /\ pc' = "raised"
            /\ raised' = "handle_tool_call"
            /\ notifications' = notifications
            /\ posts' = posts
            /\ messages' = messages]_vars
    /\ [][raised = "handle_tool_call" =>
            (pc' = "primary" /\ responses' = <<>> /\ raised' = "")]_vars

\* C8 witness: a second round aborted at its second call, whose arguments do
\* not parse, after a first call that was executed and whose post returned
C8_Witness ==
    /\ MalformedRound
    /\ rounds = 1
    /\ Len(tool_calls.items) = 2
    /\ Len(results) = 1
    /\ tool_calls.items[1].function.name = "record_user_details"
    /\ Malformed(tool_calls.items[2])
    /\ raised = "handle_tool_call"

\* C9: a failure of a primary, evaluator or regeneration call ends the turn
\* with an error: no reply is returned, the failed call is not reissued, no
\* other model is called, and a failed evaluation leaves no Evaluation.
C9_BackendFailureFatal ==
    /\ [](raised \in {"primary", "evaluate", "rerun"} =>
            /\ pc = "raised"
            /\ returned = PyNone
            /\ raised = "primary" =>
                  /\ Len(primaryCalls) = Len(responses) + 1
                  /\ evalCalls = <<>>
                  /\ rerunCalls = <<>>
            /\ raised = "evaluate" =>
                  /\ Len(primaryCalls) = Len(responses)
                  /\ Len(evalCalls) = 1
                  /\ evaluation = PyNone
                  /\ rerunCalls = <<>>
            /\ raised = "rerun" =>
                  /\ Len(primaryCalls) = Len(responses)
                  /\ Len(evalCalls) = 1
                  /\ Len(rerunCalls) = 1
                  /\ rerunResponse = PyNone)
    /\ [](pc \in {"rerun", "returned"} => evaluation.py = "Evaluation")
    /\ [][(pc = "primary" /\ pc' # "primary" /\ responses' = responses) =>
            (pc' = "raised" /\ raised' = "primary")]_vars
    /\ [][(pc = "evaluate" /\ evaluation' = PyNone) =>
            (pc' = "raised" /\ raised' = "evaluate" /\ returned' = PyNone)]_vars
    /\ [][(pc = "rerun" /\ rerunResponse' = PyNone) =>
            (pc' = "raised" /\ raised' = "rerun" /\ returned' = PyNone)]_vars
    /\ [][raised # "" =>
            (pc' = "primary" /\ responses' = <<>> /\ raised' = "")]_vars

\* C9 witness: the evaluator call failed after a tool round
C9_Witness ==
    /\ raised = "evaluate"
    /\ rounds >= 1
    /\ Len(evalCalls) = 1

\* C10: if the primary model requests tools k times and then gives another
\* response, and no call fails, chat performs k tool rounds and k+1 primary
\* invocations, and the evaluator receives the content of response k+1.
C10_LoopTermination ==
    evalCalls # <<>> =>
       LET n == Len(responses)
       IN /\ n >= 1
          /\ \A i \in 1..(n - 1) : responses[i].finish_reason = "tool_calls"
          /\ responses[n].finish_reason # "tool_calls"
          /\ rounds = n - 1
          /\ Len(primaryCalls) = n
          /\ Len(evalCalls) = 1
          /\ evalCalls[1].reply = responses[n].message.content

\* C10 witness: two tool-request responses, then a plain answer "r1"
C10_Witness ==
    /\ pc = "evaluate"
    /\ Len(responses) = 3
    /\ rounds = 2
    /\ evalCalls[1].reply = PyStr(<<"r1">>)

\* C11: the loop has no round cap and exits only on a plain answer. A tool
\* round that completes is always followed by another primary invocation,
\* whatever the number of rounds so far, and the loop is never left on a
\* tool request; if the tool calls and posts return, a dispatch leads to the
\* next invocation; if the primary model eventually gives a plain answer and
\* every call returns, the turn ends with one reply returned.
C11_LoopExitsOnlyOnPlainAnswer ==
    /\ [][rounds' = rounds + 1 =>
            /\ pc' = "primary"
            /\ Len(primaryCalls') = Len(primaryCalls) + 1
            /\ Len(primaryCalls') = rounds' + 1
            /\ evalCalls' = <<>>]_vars
    /\ [](pc \in {"evaluate", "rerun", "returned"} =>
            response.finish_reason # "tool_calls")
    /\ [](Dispatching => evalCalls = <<>>)
    /\ [][(pc = "primary" /\ responses' # responses
           /\ response'.finish_reason = "tool_calls") =>
            pc' \in {"primary", "handle_tool_call"}]_vars
    /\ [][Dispatching =>
            (Dispatching' \/ pc' \in {"primary", "raised"})]_vars
    /\ Dispatching ~> (pc = "primary")
    /\ (pc = "primary") ~>
          (/\ pc = "returned"
           /\ Len(evalCalls) = 1
           /\ returned = IF rerunCalls = <<>> THEN Candidate
                         ELSE rerunResponse.message.content)

\* C11 witness: a turn that returned after two tool rounds
C11_Witness ==
    /\ pc = "returned"
    /\ rounds >= 2
    /\ Len(primaryCalls) = rounds + 1

RECURSIVE RoundBlocks(_, _)
\* msgs is, for each response of rs in order, the response's tool-request
\* message followed by one tool message per tool call, tagged in call order
RoundBlocks(msgs, rs) ==
    IF rs = <<>> THEN msgs = <<>>
    ELSE LET n == Len(ToolCalls(Head(rs).message))
         IN /\ Len(msgs) >= n + 1
            /\ msgs[1] = Head(rs).message
            /\ \A j \in 1..n :
                  /\ IsToolResult(msgs[1 + j])
                  /\ msgs[1 + j].role = "tool"
                  /\ msgs[1 + j].tool_call_id
                        = ToolCalls(Head(rs).message)[j].id
            /\ RoundBlocks(SubSeq(msgs, n + 2, Len(msgs)), Tail(rs))

\* a is a prefix of b
IsPrefix(a, b) == Len(a) <= Len(b) /\ SubSeq(b, 1, Len(a)) = a

\* C12: at every primary invocation the message sequence is one system
\* message, the caller's history, the new user message and then, for each
\* completed round in order, the tool-request message followed by that
\* round's tool results; each invocation's sequence extends the previous one.
C12_MessageSequenceShape ==
    /\ \A c \in 1..Len(primaryCalls) :
          LET msgs == primaryCalls[c].messages
              h == Len(callerHistory)
          IN /\ Len(msgs) >= h + 2
             /\ msgs[1] = Dict("system", PyStr(system_prompt(me)))
             /\ SubSeq(msgs, 2, h + 1) = callerHistory
             /\ msgs[h + 2] = Dict("user", PyStr(callerMessage))
             /\ c - 1 <= Len(responses)
             /\ RoundBlocks(SubSeq(msgs, h + 3, Len(msgs)),
                            SubSeq(responses, 1, c - 1))
    /\ \A c \in 1..(Len(primaryCalls) - 1) :
          /\ IsPrefix(primaryCalls[c].messages, primaryCalls[c + 1].messages)
          /\ Len(primaryCalls[c].messages) < Len(primaryCalls[c + 1].messages)
    /\ (pc = "primary" \/ Dispatching) =>
          messages = primaryCalls[Len(primaryCalls)].messages

\* C12 witness: the third invocation of a turn that was given a history
C12_Witness ==
    /\ pc = "primary"
    /\ Len(primaryCalls) = 3
    /\ callerHistory # <<>>
    /\ Len(messages) >= Len(callerHistory) + 6

\* the posts that returned: the notifications that were delivered
Delivered == { k \in 1..Len(posts) : posts[k] = "ok" }

\* a round is in progress or was aborted: the last response requested tools
\* and its round is not among the completed ones
RoundOpen ==
    /\ Len(responses) = rounds + 1
    /\ response.finish_reason = "tool_calls"

RECURSIVE DeclaredCalls(_)
\* number of calls of declared tools in a sequence of primary responses
DeclaredCalls(rs) ==
    IF rs = <<>> THEN 0
    ELSE Cardinality({ j \in 1..Len(ToolCalls(Head(rs).message)) :
                          ToolCalls(Head(rs).message)[j].function.name
                             \in Registry })
         + DeclaredCalls(Tail(rs))

\* number of declared-tool calls dispatched to completion in the turn: those
\* of the completed rounds and those the open round got through
DeclaredDispatched ==
    DeclaredCalls(SubSeq(responses, 1, rounds))
    + (IF RoundOpen
       THEN Cardinality({ j \in 1..Len(results) :
                             ToolCalls(response.message)[j].function.name
                                \in Registry })
       ELSE 0)

\* C13: every dispatch of a declared tool emits one notification and yields
\* {recorded: ok}, and nothing else in a turn emits a notification, so the
\* notifications delivered in a turn are as many as the declared-tool calls
\* dispatched.
C13_NotificationsMatchDeclaredCalls ==
    /\ Cardinality(Delivered) = DeclaredDispatched
    /\ \A i \in 1..Len(messages) :
          IsToolRequest(messages[i]) =>
             \A j \in 1..Len(ToolCalls(messages[i])) :
                ToolCalls(messages[i])[j].function.name \in Registry =>
                   messages[i + j].content =
                      PyStr(<<"{\"recorded\": \"", "ok", "\"}">>)

\* C14: no cross-turn state. A turn never changes the caller's history nor
\* the grounding context, and the message sequence a turn starts with is
\* built from the grounding context, the caller's history and the new user
\* message alone; the tool scaffolding in it is that of the turn's own rounds.
C14_NoCrossTurnState ==
    /\ [](history = callerHistory)
    /\ [][me' = me]_vars
    /\ [][(pc \notin {"idle", "returned", "raised"}) =>
            (callerHistory' = callerHistory
             /\ callerMessage' = callerMessage)]_vars
    /\ [][(pc \in {"idle", "returned", "raised"}) =>
            /\ pc' = "primary"
            /\ messages' = <<Dict("system", PyStr(system_prompt(me)))>>
                           \o callerHistory'
                           \o <<Dict("user", PyStr(callerMessage'))>>
            /\ primaryCalls' = <<PrimaryRequest(messages')>>
            /\ message' = PyStr(callerMessage')
            /\ responses' = <<>>
            /\ results' = <<>>
            /\ notifications' = <<>>]_vars
    /\ [](Cardinality({ i \in 1..Len(messages) : IsToolRequest(messages[i]) })
            = rounds)

\* C14 witness: after an earlier turn that ran a tool round, a turn called
\* with an empty history starts from the system and user messages alone
C14_Witness ==
    /\ earlierRounds
    /\ pc = "primary"
    /\ rounds = 0
    /\ callerHistory = <<>>
    /\ Len(messages) = 2

\* C15: phase ordering of a turn. The evaluator is invoked once, on the
\* candidate, after every primary invocation and tool dispatch of the turn;
\* the regeneration call comes after it; a reply is returned only after it;
\* from the evaluator invocation on, the turn makes no primary invocation and
\* no tool dispatch; the regeneration request carries no tool list, while
\* every primary request carries the declared one.
C15_PhaseOrdering ==
    /\ [](evalCalls # <<>> =>
            /\ Len(evalCalls) = 1
            /\ evalCalls[1].reply = Candidate
            /\ Len(primaryCalls) = Len(responses)
            /\ pc \in {"evaluate", "rerun", "returned", "raised"})
    /\ [](rerunCalls # <<>> =>
            /\ Len(evalCalls) = 1
            /\ evaluation # PyNone
            /\ pc \in {"rerun", "returned", "raised"})
    /\ [](pc = "returned" => Len(evalCalls) = 1 /\ evaluation # PyNone)
    /\ [](pc = "primary" \/ Dispatching =>
            evalCalls = <<>> /\ rerunCalls = <<>>)
    /\ [][(pc \in {"evaluate", "rerun"}) =>
            /\ primaryCalls' = primaryCalls
            /\ responses' = responses
            /\ notifications' = notifications
            /\ posts' = posts
            /\ results' = results
            /\ messages' = messages
            /\ rounds' = rounds
            /\ evalCalls' = evalCalls
            /\ ~Dispatching']_vars
    /\ [](\A i \in 1..Len(rerunCalls) :
            "tools" \notin DOMAIN rerunCalls[i].request)
    /\ [](\A i \in 1..Len(primaryCalls) :
            /\ "tools" \in DOMAIN primaryCalls[i]
            /\ primaryCalls[i].tools = tools)

\* C15 witness: a turn that dispatched a declared tool, was evaluated, and
\* returned the regenerated reply
C15_Witness ==
    /\ pc = "returned"
    /\ rounds >= 1
    /\ notifications # <<>>
    /\ Len(evalCalls) = 1
    /\ Len(rerunCalls) = 1

\* the tool requests so far carry a list of tool calls that name no declared
\* tool and whose arguments parse
OnlyUndeclaredRequested ==
    /\ responses # <<>>
    /\ \A k \in 1..Len(responses) :
          responses[k].finish_reason = "tool_calls" =>
             /\ responses[k].message.tool_calls.py = "list"
             /\ \A j \in 1..Len(ToolCalls(responses[k].message)) :
                   LET tc == ToolCalls(responses[k].message)[j]
                   IN /\ tc.function.name \notin Registry
                      /\ ~Malformed(tc)

\* C16: only the two declared tools can be executed by tool dispatch. While
\* every tool call requested in the turn names something else (the name of
\* another module-level object included), nothing has been invoked: no
\* notification was emitted, dispatch did not raise, and every tool result
\* so far is the empty object.
C16_OnlyDeclaredToolsExecuted ==
    OnlyUndeclaredRequested =>
       /\ notifications = <<>>
       /\ raised # "handle_tool_call"
       /\ \A i \in 1..Len(messages) :
             IsToolResult(messages[i]) =>
                messages[i].content = PyStr(<<"{}">>)
       /\ RoundOpen =>
             \A j \in 1..Len(results) : results[j].content = PyStr(<<"{}">>)

RECURSIVE PushedBy(_, _)
\* the notifications sent by the first n tool calls of a list, in order
PushedBy(tcs, n) ==
    IF n = 0 THEN <<>>
    ELSE PushedBy(tcs, n - 1) \o DispatchOne(tcs[n], "ok").pushed

RECURSIVE RoundsPushed(_, _)
\* the notifications sent by the first n rounds of a turn
RoundsPushed(rs, n) ==
    IF n = 0 THEN <<>>
    ELSE RoundsPushed(rs, n - 1)
         \o PushedBy(ToolCalls(rs[n].message), Len(ToolCalls(rs[n].message)))

\* a round whose dispatch aborted at one of its tool calls
AbortedRound ==
    /\ raised = "handle_tool_call"
    /\ tool_calls.py = "list"

\* C17: partial execution on abort. When the dispatch of a round aborts at
\* the tool call at position i, the calls before i have been executed and
\* their notifications stay delivered, after those of the completed rounds;
\* the call at i failed to parse, raised, or had its post raise; no call
\* after i is executed; the message sequence is the one of the last primary
\* invocation, without the round's tool request or any of its results.
C17_PartialExecutionOnAbort ==
    /\ [](AbortedRound =>
            LET tcs == tool_calls.items
                i == Len(results) + 1
                before == RoundsPushed(responses, rounds) \o PushedBy(tcs, i - 1)
            IN /\ i <= Len(tcs)
               /\ tcs = ToolCalls(response.message)
               /\ \A j \in 1..(i - 1) :
                     /\ ~DispatchOne(tcs[j], "ok").raised
                     /\ results[j] = DispatchOne(tcs[j], "ok").result
               /\ \/ /\ Malformed(tcs[i]) \/ DispatchOne(tcs[i], "ok").raised
                     /\ notifications = before
                  \/ /\ ~DispatchOne(tcs[i], "ok").raised
                     /\ notifications
                           = before \o DispatchOne(tcs[i], "raises").pushed
                     /\ Len(notifications) = Len(before) + 1
                     /\ posts[Len(posts)] = "raises"
               /\ Delivered = 1..Len(before)
               /\ Len(responses) = rounds + 1
               /\ Len(primaryCalls) = Len(responses)
               /\ messages = primaryCalls[Len(primaryCalls)].messages
               /\ Cardinality({ k \in 1..Len(messages) :
                                   IsToolRequest(messages[k]) }) = rounds
               /\ Cardinality({ k \in 1..Len(messages) :
                                   IsToolResult(messages[k]) })
                     = CallsRequested(SubSeq(responses, 1, rounds))
               /\ returned = PyNone
               /\ evalCalls = <<>>)
    /\ [][(pc = "handle_tool_call"
           /\ DispatchOne(tool_calls.items[Len(results) + 1], "ok").raised) =>
            /\ pc' = "raised"
            /\ raised' = "handle_tool_call"
            /\ notifications' = notifications]_vars
    /\ [][(pc = "requests_post" /\ posts' # posts
           /\ posts'[Len(posts')] = "raises") =>
            /\ pc' = "raised"
            /\ raised' = "handle_tool_call"
            /\ notifications' = notifications]_vars
    /\ [][raised' = "handle_tool_call" =>
            /\ messages' = messages
            /\ primaryCalls' = primaryCalls
            /\ rounds' = rounds
            /\ Dispatching =>
                  (results' = results /\ notifications' = notifications)]_vars
    /\ [](Len(notifications)
             = Len(posts) + (IF pc = "requests_post" THEN 1 ELSE 0))
    /\ [](pc = "requests_post" =>
            LET tcs == tool_calls.items
                i == Len(results) + 1
            IN /\ i <= Len(tcs)
               /\ notifications
                     = RoundsPushed(responses, rounds) \o PushedBy(tcs, i)
               /\ Delivered = 1..(Len(notifications) - 1)
               /\ messages = primaryCalls[Len(primaryCalls)].messages)

\* C17 witness: a round aborted at its second call, whose post raised after
\* the notification of the first call was delivered
C17_Witness ==
    /\ AbortedRound
    /\ Len(results) = 1
    /\ tool_calls.items[1].function.name \in Registry
    /\ tool_calls.items[2].function.name \in Registry
    /\ Len(notifications) = 2
    /\ posts = <<"ok", "raises">>

\* C18: a primary response whose finish reason is not "tool_calls" ends the
\* loop and its content is the candidate handed to the evaluator; the tool
\* calls attached to it are not dispatched; a response whose finish reason is
\* "tool_calls" has its tool calls dispatched; and no other step of a turn
\* dispatches.
C18_FinishReasonDecidesDispatch ==
    /\ [][(pc = "primary" /\ responses' # responses
           /\ response'.finish_reason # "tool_calls") =>
            /\ pc' = "evaluate"
            /\ reply' = response'.message.content
            /\ Len(evalCalls') = 1
            /\ evalCalls'[1].reply = response'.message.content
            /\ notifications' = notifications
            /\ posts' = posts
            /\ dispatch' = dispatch
            /\ messages' = messages
            /\ primaryCalls' = primaryCalls
            /\ rounds' = rounds
            /\ raised' = ""]_vars
    /\ [][(pc = "primary" /\ responses' # responses
           /\ response'.finish_reason = "tool_calls") =>
            LET tcs == ToolCalls(response'.message)
            IN /\ tool_calls' = response'.message.tool_calls
               /\ results' = <<>>
               /\ evalCalls' = <<>>
               /\ tcs # <<>> => pc' = "handle_tool_call"
               /\ tcs = <<>> => pc' \in {"primary", "raised"}]_vars
    /\ [][(Dispatching /\ pc' = "primary") =>
            /\ results' = [j \in 1..Len(tool_calls.items) |->
                              DispatchOne(tool_calls.items[j], "ok").result]
            /\ messages' = messages \o <<response.message>> \o results']_vars
    /\ [](Dispatching =>
            /\ response.finish_reason = "tool_calls"
            /\ tool_calls = response.message.tool_calls
            /\ Len(results) < Len(tool_calls.items))
    /\ [][(pc \notin {"handle_tool_call", "idle", "returned", "raised"}) =>
            notifications' = notifications]_vars
    /\ [][(pc \notin {"requests_post", "idle", "returned", "raised"}) =>
            posts' = posts]_vars
    /\ [](pc \in {"evaluate", "rerun", "returned"} =>
            /\ Len(responses) = rounds + 1
            /\ \A k \in 1..rounds : responses[k].finish_reason = "tool_calls"
            /\ responses[rounds + 1].finish_reason # "tool_calls"
            /\ notifications = RoundsPushed(responses, rounds)
            /\ Cardinality({ k \in 1..Len(messages) : IsToolResult(messages[k]) })
                  = CallsRequested(SubSeq(responses, 1, rounds)))

\* C18 witness: the evaluator is invoked on the content of a response that
\* finished with "stop" and had a tool call attached, with nothing notified
C18_Witness ==
    /\ pc = "evaluate"
    /\ response.finish_reason = "stop"
    /\ ToolCalls(response.message) # <<>>
    /\ reply = response.message.content
    /\ notifications = <<>>
    /\ rounds = 0

====
